---- MODULE Spec2Model ----
(***************************************************************************)
(* A model of the ruice service container (core/src/lib.rs and the binding *)
(* kinds of bind.rs, construct.rs, singleton.rs and tagged.rs), and of the *)
(* axum extractor that reads from it (axum/src/lib.rs).                    *)
(*                                                                         *)
(* A container is one map from a capability's TypeId to one type-erased    *)
(* entry.  The entry is either a Resolver<S> (stored by put) or an         *)
(* AsyncResolver<S> (stored by put_async); both live under the same key.   *)
(* Arc allocations are modelled by a counter that hands out identities, so *)
(* that "the same instance" and "a new instance" are different things.     *)
(***************************************************************************)
EXTENDS Integers, Sequences, FiniteSets, TLC

\* Bounds of the model.
MaxId == 3        \* Arc allocations made during one run
MaxPuts == 2      \* registrations made during one run

\* Capabilities (TypeIds).  Foo and Bar are plain services, Tagged stands
\* for the TypeId of Tagged<Tag>.
ServiceCaps == {"Foo", "Bar"}
TagCap == "Tagged"
Caps == ServiceCaps \cup {TagCap}
\* Types with a Construct / AsyncConstruct implementation, and the capability
\* their construction reads from the container (construct.rs, Bar reads Foo).
Constructible == {"Bar"}
ConstructDep == [c \in Constructible |-> "Foo"]
\* Containers: the original and one duplicate.
Regs == {1, 2}
\* Identities of the Arcs the caller already holds and hands to bind and
\* put_tagged; the allocator of the model never hands these out.
BindPool == {90}
TagPool == {91, 92}

VARIABLES
    services,   \* services[t][c]: the entry HashMap t stores under TypeId c
    table,      \* table[r]: the HashMap container r owns
    live,       \* the containers that exist
    nextId,     \* the identity the next Arc::new will hand out
    log,        \* the registrations made so far, in order: which container,
                \* which capability, and whether through put or put_async
    written,    \* written[r][c]: the boxed strategy the caller handed over in
                \* the last registration of c on container r
    handed,     \* handed[r][c]: the strategy last handed to put for c and the
                \* strategy last handed to put_async for c
    appended,   \* appended[r]: the Arcs handed to put_tagged on container r, in
                \* the order of the calls
    op,         \* the last call made on a container, with its arguments, its
                \* result and the factory / constructor invocations it caused
    aborted     \* a resolution recursed without end (stack exhausted)

vars == <<services, table, live, nextId, log, written, handed, appended, op, aborted>>

----------------------------------------------------------------------------
\* Values

\* Option::None of an Arc.
NoInst == [id |-> 0, val |-> 0, dep |-> 0, items |-> <<>>]
\* Arc::new(service): a shared instance with a fresh identity.
NewInst(i, d) == [id |-> i, val |-> 1, dep |-> d, items |-> <<>>]
\* An Arc the caller built beforehand.
PoolInst(p) == [id |-> p, val |-> p, dep |-> 0, items |-> <<>>]
\* A constructed service that is not yet placed in an Arc.
Value(d) == [id |-> 0, val |-> 1, dep |-> d, items |-> <<>>]
\* An Arc<Tagged<Tag>> holding the Vec of tagged services.
NewTagged(i, s) == [id |-> i, val |-> 0, dep |-> 0, items |-> s]

\* The closures a caller hands to bind_by / bind_by_async.
NoF == [dep |-> "-", fk |-> "-"]
FNone == [dep |-> "-", fk |-> "none"]
FNew == [dep |-> "-", fk |-> "new"]
FAlias(d) == [dep |-> d, fk |-> "alias"]
SyncFactories == {FNone, FNew} \cup {FAlias(d) : d \in ServiceCaps}
AsyncFactories == {FNone, FNew}

\* The strategies: what implements Resolve or AsyncResolve.
Singleton_new(inst) == [inst |-> inst, strat |-> "Singleton", f |-> NoF]
Bound_from(inst) == [inst |-> inst, strat |-> "Bound", f |-> NoF]
BindBy_from(f) == [inst |-> NoInst, strat |-> "BindBy", f |-> f]
Constructor_new == [inst |-> NoInst, strat |-> "Constructor", f |-> NoF]
AsyncBindBy_from(f) == [inst |-> NoInst, strat |-> "AsyncBindBy", f |-> f]
AsyncConstructor_new == [inst |-> NoInst, strat |-> "AsyncConstructor", f |-> NoF]

\* A vacant key of the HashMap.
NoEntry == [inst |-> NoInst, strat |-> "-", f |-> NoF, wrap |-> "absent"]
\* Resolver::new(resolve) and AsyncResolver::new(resolve): the two types an
\* entry can be downcast to.
Resolver_new(s) == [inst |-> s.inst, strat |-> s.strat, f |-> s.f, wrap |-> "Resolver"]
AsyncResolver_new(s) == [inst |-> s.inst, strat |-> s.strat, f |-> s.f, wrap |-> "AsyncResolver"]

\* ServiceContainer::default().
EmptyContainer == [c \in Caps |-> NoEntry]

\* What a resolution threads through its calls: the allocator, and calls[c],
\* the invocations so far of the factory / constructor bound to c.
NoCalls == [c \in Caps |-> 0]
Heap(n, k) == [next |-> n, calls |-> k]
\* The outcome of a lookup: the Option returned, the heap afterwards, and
\* whether the recursion never returned.
Outcome(o, h, ovf) == [h |-> h, ovf |-> ovf, out |-> o]
Called(h, c) == [h EXCEPT !.calls[c] = @ + 1]
Alloc(h) == [h EXCEPT !.next = @ + 1]

----------------------------------------------------------------------------
\* Resolution

RECURSIVE get(_, _, _, _)

\* Singleton::resolve cloning the service into a new Arc, not the Arc.
Singleton_resolve_copies(e, h) == Outcome([e.inst EXCEPT !.id = h.next], Alloc(h), FALSE)

\* Singleton::resolve: Some(Arc::clone(&self.service)).
Singleton_resolve(e, h) == Outcome(e.inst, h, FALSE)

\* Bound::resolve: Some(Arc::clone(&self.service)).
Bound_resolve(e, h) == Outcome(e.inst, h, FALSE)

\* The alias closure with unwrap in place of map: an absent target is a
\* panic, not a None.
Factory_call_unwraps(f, m, h, stk) ==
    CASE f.fk = "none" -> Outcome(NoInst, h, FALSE)
      [] f.fk = "new" -> Outcome(NewInst(h.next, 0), Alloc(h), FALSE)
      [] f.fk = "alias" ->
            LET t == get(m, f.dep, h, stk)
            IN  Outcome(t.out, t.h, t.ovf \/ t.out = NoInst)

\* The body of a closure given to bind_by: None, a newly built service, or
\* the alias! closure |c| c.get::<Act>().map(|s| s as Arc<Int>).
Factory_call(f, m, h, stk) ==
    CASE f.fk = "none" -> Outcome(NoInst, h, FALSE)
      [] f.fk = "new" -> Outcome(NewInst(h.next, 0), Alloc(h), FALSE)
      [] f.fk = "alias" -> get(m, f.dep, h, stk)

\* BindBy::resolve: (self.f)(container).
BindBy_resolve(e, m, c, h, stk) == Factory_call(e.f, m, Called(h, c), stk)

\* construct with unwrap_or_default in place of `?`: a Bar is built even when
\* Foo is absent.
construct_without_dep(m, c, h, stk) ==
    LET d == get(m, ConstructDep[c], Called(h, c), stk)
    IN  Outcome(Value(d.out.id), d.h, d.ovf)

\* Construct::construct as the Bar of construct.rs implements it:
\* Some(Self { foo: container.get()? }).
construct(m, c, h, stk) ==
    LET d == get(m, ConstructDep[c], Called(h, c), stk)
    IN  IF d.out = NoInst
        THEN Outcome(NoInst, d.h, d.ovf)
        ELSE Outcome(Value(d.out.id), d.h, FALSE)

\* Constructor::resolve without the Arc::new: the Arc of the dependency is
\* handed out in place of a newly allocated instance.
Constructor_resolve_shares(m, c, h, stk) ==
    LET s == construct(m, c, h, stk)
    IN  IF s.out = NoInst THEN s ELSE Outcome([s.out EXCEPT !.id = s.out.dep], s.h, FALSE)

\* Constructor::resolve: Some(Arc::new(S::construct(container)?)).
Constructor_resolve(m, c, h, stk) ==
    LET s == construct(m, c, h, stk)
    IN  IF s.out = NoInst
        THEN s
        ELSE Outcome([s.out EXCEPT !.id = s.h.next], Alloc(s.h), FALSE)

\* Resolve::resolve, dispatched on the strategy the Resolver holds.
Resolve_resolve(e, m, c, h, stk) ==
    CASE e.strat = "Singleton" -> Singleton_resolve(e, h)
      [] e.strat = "Bound" -> Bound_resolve(e, h)
      [] e.strat = "BindBy" -> BindBy_resolve(e, m, c, h, stk)
      [] e.strat = "Constructor" -> Constructor_resolve(m, c, h, stk)

\* has that only counts the strategies stored through put.
has_sync_only(m, c) == m[c].wrap = "Resolver"

\* ServiceContainer::has: self.services.contains_key(&TypeId::of::<S>()).
has(m, c) == m[c].wrap # "absent"

\* The downcasts of get and get_async: downcast_ref::<Resolver<S>>() and
\* downcast_ref::<AsyncResolver<S>>().
downcast_Resolver(e) == e.wrap = "Resolver"
downcast_AsyncResolver(e) == e.wrap = "AsyncResolver"

\* get with a guard against re-entry: a capability whose resolution is in
\* progress is reported absent.
get_cuts_cycle(m, c, h, stk) ==
    IF c \in stk
    THEN Outcome(NoInst, h, FALSE)
    ELSE IF has(m, c) /\ downcast_Resolver(m[c])
         THEN Resolve_resolve(m[c], m, c, h, stk \cup {c})
         ELSE Outcome(NoInst, h, FALSE)

\* ServiceContainer::get.  stk is the set of capabilities whose resolution
\* is in progress further up the call stack: meeting one of them again is a
\* recursion that never returns.
get(m, c, h, stk) ==
    IF c \in stk
    THEN Outcome(NoInst, h, TRUE)
    ELSE IF has(m, c) /\ downcast_Resolver(m[c])
         THEN Resolve_resolve(m[c], m, c, h, stk \cup {c})
         ELSE Outcome(NoInst, h, FALSE)

RECURSIVE get_async(_, _, _)

\* The body of a closure given to bind_by_async: async { None } or
\* async { Some(Arc::new(..)) }.
AsyncFactory_call(f, h) ==
    CASE f.fk = "none" -> Outcome(NoInst, h, FALSE)
      [] f.fk = "new" -> Outcome(NewInst(h.next, 0), Alloc(h), FALSE)

\* AsyncBindBy::async_resolve: (self.f)(container).await.
AsyncBindBy_async_resolve(e, c, h) == AsyncFactory_call(e.f, Called(h, c))

\* AsyncConstruct::construct_async, implemented the way Bar implements
\* Construct: Some(Self { foo: container.get_async().await? }).
construct_async(m, c, h) ==
    LET d == get_async(m, ConstructDep[c], Called(h, c))
    IN  IF d.out = NoInst
        THEN Outcome(NoInst, d.h, d.ovf)
        ELSE Outcome(Value(d.out.id), d.h, FALSE)

\* AsyncConstructor::async_resolve: Some(Arc::new(S::construct_async(container).await?)).
AsyncConstructor_async_resolve(m, c, h) ==
    LET s == construct_async(m, c, h)
    IN  IF s.out = NoInst
        THEN s
        ELSE Outcome([s.out EXCEPT !.id = s.h.next], Alloc(s.h), FALSE)

\* AsyncResolve::async_resolve, dispatched on the strategy.
AsyncResolve_async_resolve(e, m, c, h) ==
    CASE e.strat = "AsyncBindBy" -> AsyncBindBy_async_resolve(e, c, h)
      [] e.strat = "AsyncConstructor" -> AsyncConstructor_async_resolve(m, c, h)

\* get_async without its last arm: what the async strategy gives, and absent
\* otherwise.
get_async_no_fallback(m, c, h) ==
    IF has(m, c) /\ downcast_AsyncResolver(m[c])
    THEN AsyncResolve_async_resolve(m[c], m, c, h)
    ELSE Outcome(NoInst, h, FALSE)

\* get_async that goes straight to get.
get_async_sync_only(m, c, h) == get(m, c, h, {})

\* ServiceContainer::get_async: the async resolver when the entry downcasts
\* to one, and self.get() when that gave None.
get_async(m, c, h) ==
    LET resolved == IF has(m, c) /\ downcast_AsyncResolver(m[c])
                    THEN AsyncResolve_async_resolve(m[c], m, c, h)
                    ELSE Outcome(NoInst, h, FALSE)
    IN  IF resolved.ovf \/ resolved.out # NoInst
        THEN resolved
        ELSE get(m, c, resolved.h, {})

\* put with or_insert in place of insert: the first strategy stays.
put_keeps_first(m, c, resolver) ==
    IF has(m, c) THEN m ELSE [m EXCEPT ![c] = Resolver_new(resolver)]

\* ServiceContainer::put: insert(TypeId::of::<S>(), Arc::new(Resolver::new(resolver))).
put(m, c, resolver) == [m EXCEPT ![c] = Resolver_new(resolver)]

\* put_async into a map emptied first: the other capabilities are dropped.
put_async_clears(m, c, resolver) == [EmptyContainer EXCEPT ![c] = resolver]

\* ServiceContainer::put_async: insert(TypeId::of::<S>(), Arc::new(resolver)).
put_async(m, c, resolver) == [m EXCEPT ![c] = resolver]

\* The function a caller hands to replace, FnOnce(Option<&S>) -> S: a new
\* service built from the current one, or the closure of put_tagged.
MSet == [mk |-> "set", item |-> 0]
MPush(item) == [mk |-> "push", item |-> item]

\* The closure of put_tagged inserting the service at the front of the Vec.
Apply_pushes_front(mut, cur, id) ==
    IF mut.mk = "push"
    THEN NewTagged(id, <<mut.item>> \o cur.items)
    ELSE NewInst(id, cur.id)

\* Singleton::new(f(current)): the value f returns, placed in a new Arc.
\* The closure of put_tagged clones the Vec of the current Tagged (or takes
\* the default, empty one) and pushes the service.
Apply(mut, cur, id) ==
    IF mut.mk = "push"
    THEN NewTagged(id, Append(cur.items, mut.item))
    ELSE NewInst(id, cur.id)

\* replace that hands None to the mutation whatever the container holds.
replace_ignores_current(m, c, mut, h) ==
    [h |-> Alloc(h), ovf |-> FALSE,
     m |-> put(m, c, Singleton_new(Apply(mut, NoInst, h.next))), arg |-> NoInst]

\* Services::replace: self.put(Singleton::new(f(self.get::<S>().as_deref()))).
replace(m, c, mut, h) ==
    LET g == get(m, c, h, {})
    IN  [h |-> Alloc(g.h), ovf |-> g.ovf,
         m |-> put(m, c, Singleton_new(Apply(mut, g.out, g.h.next))), arg |-> g.out]

\* TaggedServices::get_tagged: the Arcs of the stored Tagged, or an empty Vec.
get_tagged(m, h) ==
    LET g == get(m, TagCap, h, {})
    IN  [items |-> IF g.out = NoInst THEN <<>> ELSE g.out.items, h |-> g.h, ovf |-> g.ovf]

\* put_tagged that starts from the default Tagged, not from the stored one.
put_tagged_starts_over(m, service, h) ==
    replace_ignores_current(m, TagCap, MPush(service.id), h)

\* TaggedServices::put_tagged: one replace of Tagged<Tag>.
put_tagged(m, service, h) == replace(m, TagCap, MPush(service.id), h)

\* A deep clone: the duplicate gets copies of the registered services, each
\* in an Arc of its own.
clone_copies_services(svcs, tbl, r, d) ==
    [services |->
        [svcs EXCEPT ![d] =
            [c \in Caps |->
                [svcs[tbl[r]][c] EXCEPT !.inst.id = IF @ = 0 THEN 0 ELSE @ + 50]]],
     table |-> [tbl EXCEPT ![d] = d]]

\* A duplicate that points at the HashMap of the original.
clone_shares_table(svcs, tbl, r, d) == [services |-> svcs, table |-> [tbl EXCEPT ![d] = tbl[r]]]

\* #[derive(Clone)] on ServiceContainer: the duplicate d owns a HashMap of its
\* own, cloned from that of r, each entry an Arc pointing at the same
\* strategy object.
clone(svcs, tbl, r, d) ==
    [services |-> [svcs EXCEPT ![d] = svcs[tbl[r]]], table |-> [tbl EXCEPT ![d] = d]]

----------------------------------------------------------------------------
\* The axum extractor (axum/src/lib.rs)

INTERNAL_SERVER_ERROR == 500

\* No rejection: the extractor returned Ok(Inject { .. }).
NoRejection == "-"
NoResponse == [status |-> 0, body |-> "-"]

\* Error::into_response: (StatusCode::INTERNAL_SERVER_ERROR, format!("{}", self)).
into_response(err) == [status |-> INTERNAL_SERVER_ERROR, body |-> err]

\* What the extractor gives back: the rejection or the interface, with the
\* heap afterwards.
Extracted(rej, o, h, ovf) == [h |-> h, ovf |-> ovf, out |-> o, rejection |-> rej]

\* from_request_parts looking up again when the first lookup came back absent.
from_request_parts_retries(ext, m, c, h) ==
    IF ~ext
    THEN Extracted("ServiceContainerNotAvailable", NoInst, h, FALSE)
    ELSE LET g1 == get_async(m, c, h)
             g == IF g1.out = NoInst /\ ~g1.ovf THEN get_async(m, c, g1.h) ELSE g1
         IN  Extracted(IF g.out = NoInst THEN "ServiceNotFound" ELSE NoRejection,
                       g.out, g.h, g.ovf)

\* Inject::from_request_parts.  ext: whether the request carries the
\* Extension<Arc<C>>; m is the container it holds.
from_request_parts(ext, m, c, h) ==
    IF ~ext
    THEN Extracted("ServiceContainerNotAvailable", NoInst, h, FALSE)
    ELSE LET g == get_async(m, c, h)
         IN  Extracted(IF g.out = NoInst THEN "ServiceNotFound" ELSE NoRejection,
                       g.out, g.h, g.ovf)

----------------------------------------------------------------------------
\* The calls a program makes

\* The services field of container r.
Map(r) == services[table[r]]

Op(name, r, c, entry, out, items, arg, flag, h) ==
    [items |-> items, calls |-> h.calls, out |-> out, arg |-> arg, name |-> name,
     entry |-> entry, flag |-> flag, reg |-> r, cap |-> c,
     pre |-> nextId, prev |-> IF c \in Caps THEN Map(r)[c] ELSE NoEntry]

\* One registration in the log.
Reg(r, c, w) == [wrap |-> w, reg |-> r, cap |-> c]

WithinBounds(h) == h.next <= MaxId + 1

Here == Heap(nextId, NoCalls)

\* The part every call shares: the heap moves on, unless the resolution
\* never returned, in which case the program is gone.
Ends(h, ovf) ==
    /\ ovf \/ WithinBounds(h)
    /\ aborted' = ovf
    /\ nextId' = IF ovf THEN nextId ELSE h.next

Init ==
    /\ services = [r \in Regs |-> EmptyContainer]
    /\ table = [r \in Regs |-> r]
    /\ live = {1}
    /\ nextId = 1
    /\ log = <<>>
    /\ written = [r \in Regs |-> EmptyContainer]
    /\ handed = [r \in Regs |-> [c \in Caps |-> [sync |-> NoEntry, async |-> NoEntry]]]
    /\ appended = [r \in Regs |-> <<>>]
    /\ op = Op("new", 1, "-", NoEntry, NoInst, <<>>, NoInst, FALSE, Here)
    /\ aborted = FALSE

OpHas(r, c) ==
    /\ ~aborted /\ r \in live
    /\ op' = Op("has", r, c, NoEntry, NoInst, <<>>, NoInst, has(Map(r), c), Here)
    /\ UNCHANGED <<services, table, live, nextId, log, written, handed, appended, aborted>>

\* A get that keeps what it resolved: the instance is stored as a singleton
\* in place of the strategy that produced it.
OpGet_memoizes(r, c) ==
    /\ ~aborted /\ r \in live
    /\ LET g == get(Map(r), c, Here, {})
       IN  /\ Ends(g.h, g.ovf)
           /\ op' = Op("get", r, c, NoEntry, g.out, <<>>, NoInst, g.ovf, g.h)
           /\ services' = IF g.out = NoInst THEN services
                          ELSE [services EXCEPT ![table[r]] =
                                   put(@, c, Singleton_new(g.out))]
    /\ UNCHANGED <<table, live, log, written, handed, appended>>

OpGet(r, c) ==
    /\ ~aborted /\ r \in live
    /\ LET g == get(Map(r), c, Here, {})
       IN  /\ Ends(g.h, g.ovf)
           /\ op' = Op("get", r, c, NoEntry, g.out, <<>>, NoInst, g.ovf, g.h)
    /\ UNCHANGED <<services, table, live, log, written, handed, appended>>

OpGetAsync(r, c) ==
    /\ ~aborted /\ r \in live
    /\ LET g == get_async(Map(r), c, Here)
       IN  /\ Ends(g.h, g.ovf)
           /\ op' = Op("get_async", r, c, NoEntry, g.out, <<>>, NoInst, g.ovf, g.h)
    /\ UNCHANGED <<services, table, live, log, written, handed, appended>>

\* A put that resolves the strategy once before storing it.
Registers_resolving(name, r, c, resolver, h) ==
    /\ ~aborted /\ r \in live /\ Len(log) < MaxPuts
    /\ LET g == Resolve_resolve(Resolver_new(resolver), Map(r), c, h, {c})
       IN  /\ Ends(g.h, g.ovf)
           /\ op' = Op(name, r, c, Resolver_new(resolver), NoInst, <<>>, NoInst, g.ovf, g.h)
    /\ services' = [services EXCEPT ![table[r]] = put(@, c, resolver)]
    /\ log' = Append(log, Reg(r, c, "Resolver"))
    /\ written' = [written EXCEPT ![r][c] = Resolver_new(resolver)]
    /\ handed' = [handed EXCEPT ![r][c].sync = Resolver_new(resolver)]
    /\ UNCHANGED <<table, live, appended>>

\* The registrations that end in put.
Registers(name, r, c, resolver, h) ==
    /\ ~aborted /\ r \in live /\ Len(log) < MaxPuts
    /\ services' = [services EXCEPT ![table[r]] = put(@, c, resolver)]
    /\ log' = Append(log, Reg(r, c, "Resolver"))
    /\ written' = [written EXCEPT ![r][c] = Resolver_new(resolver)]
    /\ handed' = [handed EXCEPT ![r][c].sync = Resolver_new(resolver)]
    /\ Ends(h, FALSE)
    /\ op' = Op(name, r, c, Resolver_new(resolver), NoInst, <<>>, NoInst, FALSE, Here)
    /\ UNCHANGED <<table, live, appended>>

\* The registrations that end in put_async.
RegistersAsync(name, r, c, resolver) ==
    /\ ~aborted /\ r \in live /\ Len(log) < MaxPuts
    /\ services' = [services EXCEPT ![table[r]] = put_async(@, c, resolver)]
    /\ log' = Append(log, Reg(r, c, "AsyncResolver"))
    /\ written' = [written EXCEPT ![r][c] = resolver]
    /\ handed' = [handed EXCEPT ![r][c].async = resolver]
    /\ op' = Op(name, r, c, resolver, NoInst, <<>>, NoInst, FALSE, Here)
    /\ UNCHANGED <<table, live, nextId, appended, aborted>>

\* SingletonServices::singleton: self.put(Singleton::new(service)).
OpSingleton(r, c) ==
    Registers("singleton", r, c, Singleton_new(NewInst(nextId, 0)), Alloc(Here))

\* BindServices::bind: self.put(Resolver::new(Bound::from(service))), taken as
\* the put of the Bound strategy.
OpBind(r, c, p) == Registers("bind", r, c, Bound_from(PoolInst(p)), Here)

\* BindServices::bind_by: self.put(Resolver::new(BindBy::from(f))), taken as
\* the put of the BindBy strategy.
OpBindBy(r, c, f) == Registers("bind_by", r, c, BindBy_from(f), Here)

\* ConstructServices::construct: self.put(Constructor::<S>::new()).
OpConstruct(r, c) == Registers("construct", r, c, Constructor_new, Here)

\* AsyncBindServices::bind_by_async.
OpBindByAsync(r, c, f) ==
    RegistersAsync("bind_by_async", r, c, AsyncResolver_new(AsyncBindBy_from(f)))

\* AsyncConstructServices::construct_async.
OpConstructAsync(r, c) ==
    RegistersAsync("construct_async", r, c, AsyncResolver_new(AsyncConstructor_new))

\* What replace is to register once the mutation has been given cur: the
\* value it returns, in a new Arc, as a Singleton.
Replacement(mut, cur, id) == Resolver_new(Singleton_new(Apply(mut, cur, id)))

OpReplace(r, c) ==
    /\ ~aborted /\ r \in live /\ Len(log) < MaxPuts
    /\ LET x == replace(Map(r), c, MSet, Here)
       IN  /\ Ends(x.h, x.ovf)
           /\ services' = IF x.ovf THEN services ELSE [services EXCEPT ![table[r]] = x.m]
           /\ log' = IF x.ovf THEN log ELSE Append(log, Reg(r, c, "Resolver"))
           /\ written' = IF x.ovf THEN written
                          ELSE [written EXCEPT ![r][c] = Replacement(MSet, x.arg, x.h.next - 1)]
           /\ handed' = IF x.ovf THEN handed
                         ELSE [handed EXCEPT ![r][c].sync =
                                  Replacement(MSet, x.arg, x.h.next - 1)]
           /\ op' = Op("replace", r, c, IF x.ovf THEN NoEntry ELSE x.m[c],
                       NoInst, <<>>, x.arg, x.ovf, x.h)
    /\ UNCHANGED <<table, live, appended>>

OpPutTagged(r, p) ==
    /\ ~aborted /\ r \in live /\ Len(log) < MaxPuts
    /\ LET x == put_tagged(Map(r), PoolInst(p), Here)
       IN  /\ Ends(x.h, x.ovf)
           /\ services' = IF x.ovf THEN services ELSE [services EXCEPT ![table[r]] = x.m]
           /\ log' = IF x.ovf THEN log ELSE Append(log, Reg(r, TagCap, "Resolver"))
           /\ written' = IF x.ovf THEN written
                          ELSE [written EXCEPT ![r][TagCap] =
                                   Replacement(MPush(p), x.arg, x.h.next - 1)]
           /\ handed' = IF x.ovf THEN handed
                         ELSE [handed EXCEPT ![r][TagCap].sync =
                                  Replacement(MPush(p), x.arg, x.h.next - 1)]
           /\ op' = Op("put_tagged", r, TagCap, IF x.ovf THEN NoEntry ELSE x.m[TagCap],
                       PoolInst(p), <<>>, x.arg, x.ovf, x.h)
           /\ appended' = IF x.ovf THEN appended ELSE [appended EXCEPT ![r] = Append(@, p)]
    /\ UNCHANGED <<table, live>>

OpGetTagged(r) ==
    /\ ~aborted /\ r \in live
    /\ LET g == get_tagged(Map(r), Here)
       IN  /\ Ends(g.h, g.ovf)
           /\ op' = Op("get_tagged", r, TagCap, NoEntry, NoInst, g.items, NoInst, g.ovf, g.h)
    /\ UNCHANGED <<services, table, live, log, written, handed, appended>>

\* A request reaches a handler that takes an Inject<c>; r is the container
\* the router was given, ext whether the router carries it as an Extension.
\* The call is recorded with the rejection and the response made of it.
OpInject(r, c, ext) ==
    /\ ~aborted /\ r \in live
    /\ LET x == from_request_parts(ext, Map(r), c, Here)
       IN  /\ Ends(x.h, x.ovf)
           /\ op' = Op("from_request_parts", r, c, NoEntry, x.out, <<>>, NoInst, x.ovf, x.h)
                    @@ [rejection |-> x.rejection, ext |-> ext,
                        response |-> IF x.rejection = NoRejection THEN NoResponse
                                     ELSE into_response(x.rejection)]
    /\ UNCHANGED <<services, table, live, log, written, handed, appended>>

OpClone(r, d) ==
    /\ ~aborted /\ r \in live /\ d \notin live
    /\ services' = clone(services, table, r, d).services
    /\ table' = clone(services, table, r, d).table
    /\ live' = live \cup {d}
    /\ written' = [written EXCEPT ![d] = written[r]]
    /\ handed' = [handed EXCEPT ![d] = handed[r]]
    /\ appended' = [appended EXCEPT ![d] = appended[r]]
    /\ op' = Op("clone", d, "-", NoEntry, NoInst, <<>>, NoInst, FALSE, Here)
    /\ UNCHANGED <<nextId, log, aborted>>

Next ==
    \/ \E r \in Regs, c \in Caps : OpHas(r, c)
    \/ \E r \in Regs, c \in Caps : OpGet(r, c)
    \/ \E r \in Regs, c \in ServiceCaps : OpGetAsync(r, c)
    \/ \E r \in Regs, c \in ServiceCaps : OpSingleton(r, c)
    \/ \E r \in Regs, c \in ServiceCaps, p \in BindPool : OpBind(r, c, p)
    \/ \E r \in Regs, c \in ServiceCaps, f \in SyncFactories : OpBindBy(r, c, f)
    \/ \E r \in Regs, c \in Constructible : OpConstruct(r, c)
    \/ \E r \in Regs, c \in ServiceCaps, f \in AsyncFactories : OpBindByAsync(r, c, f)
    \/ \E r \in Regs, c \in Constructible : OpConstructAsync(r, c)
    \/ \E r \in Regs, c \in ServiceCaps : OpReplace(r, c)
    \/ \E r \in Regs, p \in TagPool : OpPutTagged(r, p)
    \/ \E r \in Regs : OpGetTagged(r)

\* One container, registered into and looked up from.
Spec == Init /\ [][Next]_vars

\* One container, registered into and then read by the extractor of the
\* requests a router receives.
NextAxum ==
    \/ \E r \in Regs, c \in ServiceCaps : OpSingleton(r, c)
    \/ \E r \in Regs, c \in ServiceCaps, p \in BindPool : OpBind(r, c, p)
    \/ \E r \in Regs, c \in ServiceCaps, f \in SyncFactories : OpBindBy(r, c, f)
    \/ \E r \in Regs, c \in Constructible : OpConstruct(r, c)
    \/ \E r \in Regs, c \in ServiceCaps, f \in AsyncFactories : OpBindByAsync(r, c, f)
    \/ \E r \in Regs, c \in Constructible : OpConstructAsync(r, c)
    \/ \E r \in Regs, c \in ServiceCaps : OpReplace(r, c)
    \/ \E r \in Regs, c \in ServiceCaps, ext \in BOOLEAN : OpInject(r, c, ext)

SpecAxum == Init /\ [][NextAxum]_vars

\* A container and its duplicate: the registrations and lookups of one
\* capability and of the tagged collection, on either of them.
BranchCaps == {"Foo"}
NextBranch ==
    \/ \E r \in Regs, d \in Regs : OpClone(r, d)
    \/ \E r \in Regs, c \in BranchCaps \cup {TagCap} : OpHas(r, c)
    \/ \E r \in Regs, c \in BranchCaps \cup {TagCap} : OpGet(r, c)
    \/ \E r \in Regs, c \in BranchCaps : OpGetAsync(r, c)
    \/ \E r \in Regs, c \in BranchCaps : OpSingleton(r, c)
    \/ \E r \in Regs, c \in BranchCaps : OpBindBy(r, c, FNew)
    \/ \E r \in Regs, c \in BranchCaps : OpBindByAsync(r, c, FNew)
    \/ \E r \in Regs, c \in BranchCaps : OpReplace(r, c)
    \/ \E r \in Regs, p \in TagPool : OpPutTagged(r, p)
    \/ \E r \in Regs : OpGetTagged(r)

SpecBranch == Init /\ [][NextBranch]_vars

----------------------------------------------------------------------------
\* Properties

\* Container r with capability c bound by the strategy last handed over for
\* it, whatever the map holds under c.
LastAlone(r, c) == [Map(r) EXCEPT ![c] = written[r][c]]

Returned(name) == op.name = name /\ ~op.flag

\* Through which of put and put_async capability c was registered on
\* container r, in the order of the registrations.
RECURSIVE KindsOf(_, _, _)
KindsOf(l, r, c) ==
    IF l = <<>> THEN <<>>
    ELSE IF l[1].reg = r /\ l[1].cap = c
         THEN <<l[1].wrap>> \o KindsOf(Tail(l), r, c)
         ELSE KindsOf(Tail(l), r, c)

\* The last two registrations of c on r were both through put, or both
\* through put_async.
TwiceSameKind(r, c) ==
    LET k == KindsOf(log, r, c)
    IN  Len(k) >= 2 /\ k[Len(k)] = k[Len(k) - 1]

\* C1: last write wins.  Once s1 and then s2 were registered for C through
\* the same method (put then put, or put_async then put_async), the container
\* holds under C exactly the boxed s2 (one entry, and nothing of s1), and
\* every get and get_async of C returns what s2 alone produces.
C1_LastWriteWins ==
    \A r \in live, c \in Caps :
        TwiceSameKind(r, c) =>
            /\ Map(r)[c] = written[r][c]
            /\ (Returned("get") /\ op.reg = r /\ op.cap = c) =>
                  op.out = get(LastAlone(r, c), c, Heap(op.pre, NoCalls), {}).out
            /\ (Returned("get_async") /\ op.reg = r /\ op.cap = c) =>
                  op.out = get_async(LastAlone(r, c), c, Heap(op.pre, NoCalls)).out

\* Foo was registered twice through put, the second time as a singleton that
\* took the second Arc, and a get of Foo returned that singleton.
C1_Witness ==
    /\ log = <<Reg(1, "Foo", "Resolver"), Reg(1, "Foo", "Resolver")>>
    /\ TwiceSameKind(1, "Foo")
    /\ Returned("get") /\ op.cap = "Foo"
    /\ written[1]["Foo"].strat = "Singleton"
    /\ op.out.id = 2 /\ op.out = written[1]["Foo"].inst

\* What the strategies handed over for c would give a lookup made at the
\* time of the last call, each consulted on its own.
AsyncProduces(r, c) ==
    AsyncResolve_async_resolve(handed[r][c].async, Map(r), c, Heap(op.pre, NoCalls))
SyncProduces(r, c) ==
    Resolve_resolve(handed[r][c].sync, Map(r), c, Heap(op.pre, NoCalls), {c})
BothHanded(r, c) == handed[r][c].sync # NoEntry /\ handed[r][c].async # NoEntry

\* C2: a capability that was given both a sync and an async strategy (in
\* either order): get_async returns the async strategy's instance when that
\* strategy succeeds, and the sync strategy's result when it reports absent.
C2_AsyncThenSync ==
    (Returned("get_async") /\ BothHanded(op.reg, op.cap)) =>
        IF AsyncProduces(op.reg, op.cap).out # NoInst
        THEN op.out = AsyncProduces(op.reg, op.cap).out
        ELSE op.out = SyncProduces(op.reg, op.cap).out

\* C3: the sync and the async slot of a capability are independent: once a
\* sync strategy s was put for C, a later put_async for C leaves it in place
\* and get(C) resolves through s.
C3_IndependentSlots ==
    (Returned("get") /\ handed[op.reg][op.cap].sync # NoEntry) =>
        op.out = SyncProduces(op.reg, op.cap).out

\* The capabilities registered so far on container r, in order.
RECURSIVE CapsOf(_, _)
CapsOf(l, r) ==
    IF l = <<>> THEN <<>>
    ELSE IF l[1].reg = r THEN <<l[1].cap>> \o CapsOf(Tail(l), r) ELSE CapsOf(Tail(l), r)

\* C4: registration order is irrelevant for recursive construction.  A get of
\* an auto-constructed B (its construction looks up A) gives what the lookup
\* of A gives at that moment, wrapped in a new B: absent when A gives absent,
\* else a B holding A's instance; the order of the registrations plays no part.
C4_OrderIrrelevant ==
    \A b \in Constructible :
        (Returned("get") /\ op.cap = b /\ written[op.reg][b] = Resolver_new(Constructor_new)) =>
            LET a == get(Map(op.reg), ConstructDep[b], Heap(op.pre, NoCalls), {b})
            IN  IF a.out = NoInst
                THEN op.out = NoInst
                ELSE op.out = NewInst(a.h.next, a.out.id)

\* Bar was registered for construction first and Foo as a singleton after it,
\* and a get of Bar returned a Bar holding that Foo.
C4_Witness ==
    /\ CapsOf(log, 1) = <<"Bar", "Foo">>
    /\ written[1]["Bar"] = Resolver_new(Constructor_new)
    /\ written[1]["Foo"].strat = "Singleton"
    /\ Returned("get") /\ op.cap = "Bar"
    /\ op.out # NoInst /\ op.out.dep = written[1]["Foo"].inst.id

LazySync(e) == e.strat \in {"BindBy", "Constructor"}
LazyAsync(e) == e.strat \in {"AsyncBindBy", "AsyncConstructor"}

\* C5: lazy and auto-constructed bindings never memoize.  Every lookup that
\* goes through such a binding (get or get_async on a sync one, get_async on
\* an async one) and returns invoked its factory or construction operation
\* exactly once, and an instance an auto-constructed binding returns is
\* newly allocated by that lookup: no earlier Arc has its identity.
C5_NeverMemoizes ==
    \A c \in ServiceCaps :
        (op.cap = c
            /\ \/ (Returned("get") \/ Returned("get_async")) /\ LazySync(written[op.reg][c])
               \/ Returned("get_async") /\ LazyAsync(written[op.reg][c])) =>
            /\ op.calls[c] = 1
            /\ (written[op.reg][c].strat \in {"Constructor", "AsyncConstructor"}
                    /\ op.out # NoInst) =>
                  /\ op.out.id >= op.pre
                  /\ op.out.id < nextId
                  /\ op.out.id \notin BindPool \cup TagPool

\* A get of the auto-constructed Bar returned its second instance: the first
\* Arc is the Foo singleton, the second an earlier Bar.
C5_Witness ==
    /\ written[1]["Bar"] = Resolver_new(Constructor_new)
    /\ written[1]["Foo"].strat = "Singleton"
    /\ Returned("get") /\ op.cap = "Bar"
    /\ op.pre = 3 /\ op.out.id = 3 /\ op.calls["Bar"] = 1

Fixed(e) == e.strat \in {"Singleton", "Bound"}

\* C6: fixed-instance aliasing.  A get of a capability bound as a fixed
\* instance (singleton, bind, or the product of replace) succeeds with the
\* very Arc that was registered, allocates nothing and invokes nothing,
\* whatever was registered for other capabilities since.
C6_FixedAliasing ==
    \A c \in Caps :
        (Returned("get") /\ op.cap = c /\ Fixed(written[op.reg][c])) =>
            /\ op.out # NoInst
            /\ op.out = written[op.reg][c].inst
            /\ nextId = op.pre
            /\ op.calls = NoCalls

\* Foo was bound as a singleton, Bar was registered after it, an Arc was
\* allocated since, and a get of Foo returned the first Arc.
C6_Witness ==
    /\ CapsOf(log, 1) = <<"Foo", "Bar">>
    /\ written[1]["Foo"].strat = "Singleton"
    /\ Returned("get") /\ op.cap = "Foo"
    /\ op.out.id = 1 /\ nextId = 3

\* C10: asynchronous services cannot be retrieved synchronously.  While the
\* registration in effect for C is an async strategy, get(C) returns absent
\* without invoking anything and get_async(C) returns what the async
\* strategy produces.
C10_AsyncNotSync ==
    \A c \in ServiceCaps :
        (op.cap = c /\ written[op.reg][c].wrap = "AsyncResolver") =>
            /\ Returned("get") => (op.out = NoInst /\ op.calls = NoCalls)
            /\ Returned("get_async") =>
                  op.out = AsyncResolve_async_resolve(
                               written[op.reg][c], Map(op.reg), c,
                               Heap(op.pre, NoCalls)).out

\* Foo is bound by an async factory that builds a service, and get_async
\* returned the service it built.
C10_Witness ==
    /\ written[1]["Foo"] = AsyncResolver_new(AsyncBindBy_from(FNew))
    /\ Returned("get_async") /\ op.cap = "Foo"
    /\ op.out # NoInst /\ op.out.id = op.pre

\* C8: tagged accumulation order.  get_tagged returns exactly the Arcs handed
\* to put_tagged on that container, one entry per call, in the order of the
\* calls; on a container nothing was appended to it returns the empty
\* sequence.
C8_TaggedOrder ==
    Returned("get_tagged") =>
        /\ op.items = appended[op.reg]
        /\ ~has(Map(op.reg), TagCap) => op.items = <<>>

\* Two different Arcs were appended and get_tagged returned them in order.
C8_Witness ==
    /\ Returned("get_tagged")
    /\ Len(op.items) = 2 /\ op.items[1] # op.items[2]
    /\ op.items = appended[1]

\* C9: replace(C, f) hands f the result get(C) gives at that moment (invoking
\* what that get invokes, and nothing more), places the one value f returns
\* in one new Arc and registers it as a fixed instance in place of whatever
\* was there: a get of C made next returns that Arc and invokes no factory.
C9_Replace ==
    [][\A r \in Regs, c \in ServiceCaps :
          (op'.name = "replace" /\ ~op'.flag /\ op'.reg = r /\ op'.cap = c) =>
              LET g == get(Map(r), c, Heap(nextId, NoCalls), {})
                  new == NewInst(g.h.next, g.out.id)
              IN  /\ op'.arg = g.out
                  /\ op'.calls = g.h.calls
                  /\ nextId' = g.h.next + 1
                  /\ Map(r)'[c] = Resolver_new(Singleton_new(new))
                  /\ get(Map(r)', c, Heap(nextId', NoCalls), {})
                        = Outcome(new, Heap(nextId', NoCalls), FALSE)]_vars

\* Foo was bound by a factory that builds a service; replace invoked the
\* factory once, handed its product to the mutation and left a singleton.
C9_Witness ==
    /\ op.name = "replace" /\ ~op.flag /\ op.cap = "Foo"
    /\ op.prev = Resolver_new(BindBy_from(FNew))
    /\ op.arg.id = op.pre /\ op.calls["Foo"] = 1
    /\ Map(1)["Foo"].strat = "Singleton"
    /\ Map(1)["Foo"].inst.dep = op.arg.id

IsRegistration(o) ==
    o.name \in {"construct", "construct_async", "replace", "put_tagged",
                "singleton", "bind", "bind_by", "bind_by_async"}

\* What has, get, get_async and get_tagged give on map m, each made from the
\* heap h.
Observed(m, h) ==
    [c \in Caps |->
        [get |-> get(m, c, h, {}).out, has |-> has(m, c),
         get_async |-> IF c \in ServiceCaps THEN get_async(m, c, h).out ELSE NoInst,
         get_tagged |-> get_tagged(m, h).items]]

\* C7: branching isolation.  A put, put_async, replace or put_tagged applied
\* to one container leaves the map of every other container as it was, and
\* with it what has, get, get_async and get_tagged give there.
C7_BranchIsolation ==
    [][\A r \in Regs, d \in Regs :
          (IsRegistration(op') /\ op'.reg = r /\ d # r /\ d \in live) =>
              /\ Map(d)' = Map(d)
              /\ Observed(Map(d)', Heap(nextId', NoCalls))
                    = Observed(Map(d), Heap(nextId', NoCalls))]_vars

\* Foo was bound, the container duplicated, and a registration of Foo on the
\* duplicate left the two containers with different strategies for Foo.
C7_Witness ==
    /\ live = {1, 2}
    /\ IsRegistration(op) /\ op.reg = 2 /\ op.cap = "Foo"
    /\ has(Map(1), "Foo") /\ op.prev = Map(1)["Foo"]
    /\ Map(2)["Foo"] = op.entry /\ Map(2)["Foo"] # Map(1)["Foo"]

\* C11: sync fallback for sync-only bindings.  For a capability that was
\* given no async strategy, get_async returns what get returns from the same
\* heap (the sync strategy's instance, or absent when it declines), invoking
\* what that get invokes; when no strategy at all was given it returns
\* absent.
C11_SyncFallback ==
    \A c \in ServiceCaps :
        (Returned("get_async") /\ op.cap = c /\ handed[op.reg][c].async = NoEntry) =>
            LET g == get(Map(op.reg), c, Heap(op.pre, NoCalls), {})
            IN  /\ op.out = g.out
                /\ op.calls = g.h.calls
                /\ nextId = g.h.next
                /\ handed[op.reg][c].sync = NoEntry => op.out = NoInst

\* Foo was bound as a singleton only, and get_async returned the singleton.
C11_Witness ==
    /\ handed[1]["Foo"].async = NoEntry
    /\ handed[1]["Foo"].sync.strat = "Singleton"
    /\ Returned("get_async") /\ op.cap = "Foo"
    /\ op.out # NoInst /\ op.out = handed[1]["Foo"].sync.inst

\* C12: has(C) is true exactly when a strategy, sync or async, is registered
\* for C.  A has call answers whether anything was ever registered for C on
\* that container (false on the empty one); every registration that returns
\* leaves has true for its capability; has turns true through nothing else,
\* and once true it stays true through every call.
C12_HasRegistered ==
    [][\A r \in live, c \in Caps :
          /\ (op'.name = "has" /\ op'.reg = r /\ op'.cap = c) =>
                op'.flag = (written[r][c] # NoEntry)
          /\ (IsRegistration(op') /\ ~op'.flag /\ op'.reg = r /\ op'.cap = c) =>
                has(Map(r)', c)
          /\ (~has(Map(r), c) /\ has(Map(r)', c)) =>
                (IsRegistration(op') /\ op'.reg = r /\ op'.cap = c)
          /\ has(Map(r), c) => has(Map(r)', c)
          /\ has(Map(r), c) = (written[r][c] # NoEntry)]_vars

\* Foo was registered through put_async, Bar was registered after it, and a
\* has call for Foo answered true.
C12_Witness ==
    /\ CapsOf(log, 1) = <<"Foo", "Bar">>
    /\ log[1].wrap = "AsyncResolver"
    /\ op.name = "has" /\ op.cap = "Foo" /\ op.flag

\* The capability the strategy e bound to c looks up when it resolves: the
\* dependency of an auto-constructed type, the target of an alias closure.
LooksUp(e, c) ==
    IF e.wrap = "Resolver" /\ e.strat = "Constructor" THEN ConstructDep[c]
    ELSE IF e.wrap = "Resolver" /\ e.strat = "BindBy" /\ e.f.fk = "alias" THEN e.f.dep
    ELSE "-"

\* C13: absence propagates and is never an error.  When the strategy bound
\* to C looks up D and the lookup of D comes back absent (D is unbound, its
\* strategy declines, or its entry is not a sync one), get(C) returns absent:
\* the call returns, the program goes on, the strategy of C was invoked once
\* and not again, nothing was allocated, and the result is the one the
\* caller would see had D never been bound.
C13_AbsencePropagates ==
    \A c \in ServiceCaps :
        LET r == op.reg
            d == LooksUp(Map(r)[c], c)
        IN  (op.name = "get" /\ op.cap = c /\ d \in ServiceCaps \ {c}
                /\ get(Map(r), d, Heap(op.pre, NoCalls), {c}).out = NoInst
                /\ ~get(Map(r), d, Heap(op.pre, NoCalls), {c}).ovf) =>
                /\ ~op.flag /\ ~aborted
                /\ op.out = NoInst
                /\ op.calls[c] = 1
                /\ nextId = op.pre
                /\ op.out = get([Map(r) EXCEPT ![d] = NoEntry], c,
                                Heap(op.pre, NoCalls), {}).out

\* Bar is auto-constructed from Foo, Foo is bound by a factory that
\* declines, and a get of Bar invoked both once and returned absent.
C13_Witness ==
    /\ Map(1)["Bar"] = Resolver_new(Constructor_new)
    /\ Map(1)["Foo"] = Resolver_new(BindBy_from(FNone))
    /\ op.name = "get" /\ op.cap = "Bar" /\ ~op.flag
    /\ op.out = NoInst
    /\ op.calls["Bar"] = 1 /\ op.calls["Foo"] = 1

\* C14: the extractor has exactly three outcomes.  Without the container in
\* the request it is rejected as ServiceContainerNotAvailable and nothing was
\* looked up (no factory ran, nothing was allocated).  With the container it
\* does what one get_async of the capability does and nothing more, and
\* returns that instance, or is rejected as ServiceNotFound when the lookup
\* came back absent.  Each rejection becomes a response with status 500, and
\* a success becomes none.
C14_Extraction ==
    op.name = "from_request_parts" =>
        LET g == get_async(Map(op.reg), op.cap, Heap(op.pre, NoCalls))
        IN  /\ ~op.ext =>
                  /\ op.rejection = "ServiceContainerNotAvailable"
                  /\ ~op.flag /\ op.calls = NoCalls /\ nextId = op.pre
            /\ (op.ext /\ ~op.flag) =>
                  /\ op.out = g.out
                  /\ op.calls = g.h.calls /\ nextId = g.h.next
                  /\ op.rejection = IF g.out = NoInst THEN "ServiceNotFound" ELSE NoRejection
            /\ op.rejection \in {NoRejection, "ServiceContainerNotAvailable", "ServiceNotFound"}
            /\ IF op.rejection = NoRejection
               THEN op.out # NoInst /\ op.response = NoResponse
               ELSE /\ op.out = NoInst
                    /\ op.response.status = INTERNAL_SERVER_ERROR
                    /\ op.response.body = op.rejection

\* The container is in the request, Foo is bound by a factory that declines,
\* and the extractor invoked it once and was rejected as ServiceNotFound.
C14_Witness ==
    /\ op.name = "from_request_parts" /\ op.ext /\ op.cap = "Foo"
    /\ Map(1)["Foo"] = Resolver_new(BindBy_from(FNone))
    /\ op.calls["Foo"] = 1
    /\ op.rejection = "ServiceNotFound"
    /\ op.response.status = INTERNAL_SERVER_ERROR

\* The registrations that hand a strategy over as it is.
PlainRegistrations ==
    {"construct", "construct_async", "singleton", "bind", "bind_by", "bind_by_async"}

\* C15: registration performs no construction.  A put or put_async, reached
\* through singleton, bind, bind_by, construct, bind_by_async or
\* construct_async, returns without having invoked any factory or
\* construction operation, allocates nothing but the Arc of a singleton,
\* stores the strategy as it was handed over, and leaves the program
\* running; factories and construction operations are invoked by no call
\* other than get, get_async, get_tagged, replace, put_tagged and the
\* extractor's get_async.
C15_NoConstruction ==
    /\ op.name \in PlainRegistrations =>
          /\ ~op.flag /\ ~aborted
          /\ op.calls = NoCalls
          /\ nextId = op.pre + (IF op.name = "singleton" THEN 1 ELSE 0)
          /\ Map(op.reg)[op.cap] = op.entry
          /\ (LazySync(op.entry) \/ LazyAsync(op.entry)) => op.entry.inst = NoInst
    /\ op.calls # NoCalls =>
          op.name \in {"get", "get_async", "replace", "get_tagged", "put_tagged",
                       "from_request_parts"}

\* Foo was bound by a closure that looks up Foo itself, which no resolution
\* of Foo survives, and the registration returned without invoking it.
C15_Witness ==
    /\ op.name = "bind_by" /\ op.cap = "Foo" /\ ~op.flag /\ ~aborted
    /\ op.entry = Resolver_new(BindBy_from(FAlias("Foo")))
    /\ Map(1)["Foo"] = op.entry
    /\ op.calls = NoCalls

\* Whether the lookups that start at c come back to a capability already
\* met: c's strategy looks up d, d's strategy looks up the next, and so on.
RECURSIVE ComesBack(_, _, _)
ComesBack(m, c, seen) ==
    IF c \in seen THEN TRUE
    ELSE IF LooksUp(m[c], c) = "-" THEN FALSE
         ELSE ComesBack(m, LooksUp(m[c], c), seen \cup {c})

RECURSIVE SumOf(_, _)
SumOf(f, s) ==
    IF s = {} THEN 0
    ELSE LET x == CHOOSE x \in s : TRUE IN f[x] + SumOf(f, s \ {x})

\* C16: no cycle detection.  A get of C returns when the lookups that start
\* at C never come back to a capability already met, and then no strategy
\* was invoked twice, only bound capabilities were invoked, and so the
\* invocations nested no deeper than the number of bound capabilities.  When
\* they do come back, the get never returns: the program is gone, and no
\* absent was handed to the caller in its place.
C16_NoCycleDetection ==
    \A c \in Caps :
        (op.name = "get" /\ op.cap = c) =>
            LET m == Map(op.reg)
            IN  /\ op.flag = ComesBack(m, c, {})
                /\ op.flag => aborted
                /\ ~op.flag =>
                      /\ ~aborted
                      /\ \A d \in Caps : op.calls[d] <= 1 /\ (op.calls[d] = 1 => has(m, d))
                      /\ SumOf(op.calls, Caps) <= Cardinality({d \in Caps : has(m, d)})

\* Bar is auto-constructed from Foo and Foo is an alias of Bar: the get of
\* Bar never returned.
C16_Witness ==
    /\ Map(1)["Bar"] = Resolver_new(Constructor_new)
    /\ Map(1)["Foo"] = Resolver_new(BindBy_from(FAlias("Bar")))
    /\ op.name = "get" /\ op.cap = "Bar"
    /\ op.flag /\ aborted

\* C17: a type mismatch on a stored entry is unreachable.  Whenever a get of
\* C finds an entry under C, the entry downcasts to the sync resolver, and
\* whenever a get_async of C finds one, it downcasts to the async resolver.
C17_DowncastSucceeds ==
    \A c \in Caps :
        (op.cap = c /\ has(Map(op.reg), c)) =>
            /\ op.name = "get" => downcast_Resolver(Map(op.reg)[c])
            /\ op.name = "get_async" => downcast_AsyncResolver(Map(op.reg)[c])

Lookups == {"get", "has", "get_async", "get_tagged"}

\* An instance with the identities it was newly given by a call that began
\* at heap position pre written relative to pre, so that the results of a
\* call made earlier and of the same call made later can be compared.
Rel(x, pre) ==
    LET rel(i) == IF i >= pre /\ i \notin BindPool \cup TagPool THEN pre - 1 - i ELSE i
    IN  [x EXCEPT !.id = rel(@), !.dep = rel(@)]

\* What the lookup name of c gives on map m from heap h: whether it answered
\* true or never returned, the instance, the items, the invocations.
Looked(name, m, c, h) ==
    CASE name = "has" -> <<has(m, c), NoInst, <<>>, NoCalls>>
      [] name = "get" ->
            LET g == get(m, c, h, {}) IN <<g.ovf, Rel(g.out, h.next), <<>>, g.h.calls>>
      [] name = "get_async" ->
            LET g == get_async(m, c, h) IN <<g.ovf, Rel(g.out, h.next), <<>>, g.h.calls>>
      [] name = "get_tagged" ->
            LET g == get_tagged(m, h) IN <<g.ovf, NoInst, g.items, g.h.calls>>

GetOut(m, c, n) == get(m, c, Heap(n, NoCalls), {}).out

\* C19: duplicates share strategies by reference.  The duplicate made by
\* clone holds, under every capability, the entry the original holds, so
\* for a capability bound as a fixed instance a get on either returns the
\* one Arc that was registered; and each of the two goes on returning that
\* Arc through every call that is not its own registration of the
\* capability, the registrations made on the other container included.
C19_SharedByReference ==
    [][\A c \in Caps :
          /\ \A d \in live' \ live : \E r \in live :
                /\ Map(d)'[c] = Map(r)[c]
                /\ Fixed(Map(r)[c]) =>
                      /\ GetOut(Map(d)', c, nextId') = Map(r)[c].inst
                      /\ GetOut(Map(r)', c, nextId') = Map(r)[c].inst
                      /\ Map(r)[c].inst # NoInst
          /\ \A x \in live :
                (Fixed(Map(x)[c])
                    /\ ~(IsRegistration(op') /\ op'.reg = x /\ op'.cap = c)) =>
                        /\ Map(x)'[c] = Map(x)[c]
                        /\ GetOut(Map(x)', c, nextId') = Map(x)[c].inst
                        /\ (op'.name = "get" /\ op'.reg = x /\ op'.cap = c) =>
                              op'.out = Map(x)[c].inst]_vars

\* Foo was bound as a singleton and the container duplicated; the original
\* has since rebound Foo, and a get on the duplicate, which has not,
\* returned the Arc registered before the duplication.
C19_Witness ==
    /\ live = {1, 2}
    /\ log = <<Reg(1, "Foo", "Resolver"), Reg(1, "Foo", "Resolver")>>
    /\ Returned("get") /\ op.reg = 2 /\ op.cap = "Foo"
    /\ Map(2)["Foo"].strat = "Singleton"
    /\ op.out.id = 1 /\ op.out = Map(2)["Foo"].inst
    /\ Map(1)["Foo"] # Map(2)["Foo"]

\* Whether the lookups that start at d reach c.
RECURSIVE Reaches(_, _, _, _)
Reaches(m, d, c, seen) ==
    IF d = c THEN TRUE
    ELSE IF d \in seen \/ LooksUp(m[d], d) = "-" THEN FALSE
         ELSE Reaches(m, LooksUp(m[d], d), c, seen \cup {d})

\* C20: registration is local to one capability.  A put, put_async, replace
\* or put_tagged for C on a container leaves the entry of every other
\* capability D of that container as it was, and with it has(D); and for
\* every D whose resolution does not come to look up C, a get of D gives
\* after the registration what it would have given before it.
C20_RegistrationLocal ==
    [][\A r \in live, c \in Caps, d \in Caps :
          (IsRegistration(op') /\ op'.reg = r /\ op'.cap = c /\ d # c) =>
              /\ Map(r)'[d] = Map(r)[d]
              /\ has(Map(r)', d) = has(Map(r), d)
              /\ ~Reaches(Map(r), d, c, {}) =>
                    get(Map(r)', d, Heap(nextId', NoCalls), {})
                        = get(Map(r), d, Heap(nextId', NoCalls), {})]_vars

\* Bar was bound to an instance, Foo was then registered through put_async,
\* and Bar is bound as before.
C20_Witness ==
    /\ CapsOf(log, 1) = <<"Bar", "Foo">>
    /\ op.name = "bind_by_async" /\ op.cap = "Foo"
    /\ Map(1)["Foo"] = op.entry
    /\ Map(1)["Bar"] = Resolver_new(Bound_from(PoolInst(90)))
    /\ Map(1)["Bar"] = written[1]["Bar"]

IsPrefix(s, t) == Len(s) <= Len(t) /\ SubSeq(t, 1, Len(s)) = s

\* The sequence a get_tagged on container r would return now.
TaggedNow(r) == get_tagged(Map(r), Heap(nextId, NoCalls)).items

\* C21: a tagged collection only grows by appending.  Through every call,
\* what get_tagged returns before it is a prefix of what get_tagged returns
\* after it, and a get_tagged that is made returns exactly that sequence, so
\* an earlier result is a prefix of every later one.  A put_tagged that
\* returns lengthens the sequence by exactly one, the Arc it was handed, and
\* changes it in no other call; it builds the longer Vec in a new Arc and
\* leaves the Tagged it read, whose items are the sequence handed out before,
\* as it was.
C21_GrowsByAppending ==
    [][\A r \in live :
          /\ IsPrefix(TaggedNow(r), TaggedNow(r)')
          /\ (op'.name = "get_tagged" /\ ~op'.flag /\ op'.reg = r) =>
                /\ op'.items = TaggedNow(r)
                /\ TaggedNow(r)' = TaggedNow(r)
          /\ IF op'.name = "put_tagged" /\ ~op'.flag /\ op'.reg = r
             THEN /\ TaggedNow(r)' = Append(TaggedNow(r), op'.out.id)
                  /\ Len(TaggedNow(r)') = Len(TaggedNow(r)) + 1
                  /\ op'.arg.items = TaggedNow(r)
                  /\ op'.arg = op'.prev.inst
                  /\ Map(r)'[TagCap].inst.id # op'.prev.inst.id
                  /\ (op.name = "get_tagged" /\ op.reg = r) =>
                        (op.items = op'.arg.items /\ IsPrefix(op.items, TaggedNow(r)'))
             ELSE TaggedNow(r)' = TaggedNow(r)]_vars

\* A second Arc was appended: the Tagged that put_tagged read holds the
\* first alone, and get_tagged now gives the first and then the second.
C21_Witness ==
    /\ op.name = "put_tagged" /\ ~op.flag /\ op.reg = 1
    /\ Len(op.arg.items) = 1
    /\ TaggedNow(1) = Append(op.arg.items, op.out.id)
    /\ TaggedNow(1)[1] # TaggedNow(1)[2]

====
